---- MODULE Spec2Model ----
(***************************************************************************)
(* Model of main.py: the balance-driven bridging loop (main_loop) with the *)
(* transaction pipeline (check_balance, build_tx, send_tx) and the part of *)
(* the two chains the loop talks to (balance, mined transaction count,     *)
(* mempool, bridged funds on their way).                                   *)
(*                                                                         *)
(* Amounts are integers in units of a quarter of BRIDGE_AMOUNT_ETH.        *)
(* Every RPC call of the loop is one step; the chains act between steps.   *)
(***************************************************************************)
EXTENDS Integers, Sequences, FiniteSets, TLC

VARIABLES
    pc,         \* position of main_loop
    dir,        \* chain being drained ("arb", "base"), "none" outside the drains
    connected,  \* connected[c]: w3.is_connected() of chain c's endpoint
    bal,        \* bal[c]: the wallet's balance on chain c
    mined,      \* mined[c]: transactions of the wallet mined on c ('latest' count)
    pend,       \* pend[c]: the wallet's transaction in c's mempool, or NoTx
    inflight,   \* inflight[c]: bridged funds on their way to chain c
    bal_arb,    \* local bal_arb of main_loop (None before the first read)
    bal_base,   \* local bal_base of main_loop
    lastRead,   \* the while condition's check_balance reading, NoRead once used
    draft,      \* local tx of bridge_*: the draft built by build_tx, or NoDraft
    status,     \* local status of send_tx: "none", "SUCCESS", "FAIL"
    nSent,      \* number of transactions send_raw_transaction accepted so far
    last,       \* the latest of them, as it was broadcast, or NoSend
    lastNonce,  \* lastNonce[c]: nonce of the latest one on chain c, or None
    failed,     \* failed[c]: nonce of the attempt on c that last raised in send_tx
    slept,      \* the time.sleep durations since the last balance read
    ended,      \* how the last cycle ended: "no", "cold", "drained", "error"
    cyc,        \* cyc[c]: a transaction was broadcast on c in the current cycle;
                \* cyc["built"]: build_tx ran in it
    mark,       \* nSent when the cycle ended, 0 while it runs
    clean,      \* no exception was raised and no receipt was FAIL so far
    naps,       \* drain-loop sleeps (lines 132, 142) since the latest broadcast,
                \* None once an exception was raised after it
    bal0        \* the balances at startup

vars == <<pc, dir, connected, bal, mined, pend, inflight, bal_arb, bal_base,
          lastRead, draft, status, nSent, last, lastNonce, failed, slept, ended,
          cyc, mark, clean, naps, bal0>>

sentVars == <<nSent, last, lastNonce, cyc>>

chainVars == <<bal, mined, pend, inflight>>

-----------------------------------------------------------------------------
(* Configuration (config.py) and literals of main.py *)

\* MIN_BALANCE_ETH and BRIDGE_AMOUNT_ETH, 0.01 ETH each in the spec's scenario
MIN_BALANCE_ETH == 4
BRIDGE_AMOUNT_ETH == 4
\* GAS_LIMIT, the fallback gas limit
GAS_LIMIT == 9
\* time.sleep(30) when both chains are below the threshold
COLD_DELAY == 30
\* time.sleep(60) after the drains
\* (variant: the cold delay used here too)
PostDelayAsCold == COLD_DELAY
POST_DRAIN_DELAY == 60
\* time.sleep(30) in the except clause
ERROR_DELAY == 30
\* random.randint(10, 30)
DELAY_MIN == 10
DELAY_MAX == 30

(* Bounds of the model *)
MaxTx == 5          \* transactions broadcast in one behaviour
MaxEstGas == 120    \* largest gas estimate returned by estimate_gas (SpecGas)

Chains == {"arb", "base"}
Other(c) == IF c = "arb" THEN "base" ELSE "arb"
None == 0 - 1
NoTx == [nonce |-> None, fee |-> 0, value |-> 0]
NoneYet == [k \in Chains \cup {"built"} |-> FALSE]
NoRead == [chain |-> "none", value |-> None]
NoSend == [chain |-> "none", nonce |-> None, prev |-> None, retry |-> FALSE,
           afterFail |-> None, outstanding |-> 0, auth |-> NoRead, naps |-> None]
NoDraft == [nonce |-> None, gas |-> 0, est |-> None, value |-> 0, tried |-> FALSE]
EstFail == 0 - 2
\* the ends of random.randint's range stand for the values in it
\* (variant: random.randint(0, 30))
DelaysFromZero == {0, DELAY_MAX}
Delays == {DELAY_MIN, DELAY_MAX}
\* a low and a high fee of one transaction, in units
GasCosts == {1, 2}
\* the answers of estimate_gas: a gas estimate, or EstFail when it raises
EstGas == 0..MaxEstGas
LoopEst == {1, EstFail}

\* balances the wallet may hold at startup
Balances(a, b) == [c \in Chains |-> IF c = "arb" THEN a ELSE b]
Scenario == Balances(5 * BRIDGE_AMOUNT_ETH, 0)
InitBalances == {Balances(0, 0), Balances(MIN_BALANCE_ETH, 0),
                 Balances(MIN_BALANCE_ETH + 1, 1), Scenario}
\* startup balances small enough for every drain to run dry within MaxTx
LiveBalances == {Balances(0, 0), Balances(MIN_BALANCE_ETH + 1, 1),
                 Balances(2 * BRIDGE_AMOUNT_ETH + 1, 0),
                 Balances(1, BRIDGE_AMOUNT_ETH + 2)}

-----------------------------------------------------------------------------
(* Pure functions *)

\* check_balance: the balance in ETH; the conversion from wei is monotone and
\* exact on the multiples of the unit, so the reading is the balance in units
check_balance(c) == bal[c]

\* the while condition of chain c's drain on the balance b just read:
\* check_balance(...) >= MIN_BALANCE_ETH
\* (variants: the Base drain without its threshold; a reserve of one bridge
\* amount kept above the threshold; any balance above zero)
DrainableBaseAlways(c, b) == c = "base" \/ b >= MIN_BALANCE_ETH
DrainableReserve(c, b) == b >= MIN_BALANCE_ETH + BRIDGE_AMOUNT_ETH
DrainableNonEmpty(c, b) == b > 0
Drainable(c, b) == b >= MIN_BALANCE_ETH

\* lines 125 and 135: the while condition calls check_balance afresh
\* (variant: it tests the balances read at the start of the cycle)
LoopReadingStale(c) == IF c = "arb" THEN bal_arb ELSE bal_base
LoopReading(c) == check_balance(c)

\* lines 124-142: the Arbitrum drain is the first of the two while loops
\* (variant: the Base drain first)
DrainBaseFirst == "base"
FirstDrain == "arb"

\* the cold test: bal_arb < MIN_BALANCE_ETH and bal_base < MIN_BALANCE_ETH
\* (variant: 'or' for 'and')
EitherBelow(a, b) == a < MIN_BALANCE_ETH \/ b < MIN_BALANCE_ETH
BothBelow(a, b) == a < MIN_BALANCE_ETH /\ b < MIN_BALANCE_ETH

\* int(estimated_gas * 1.2): the product is truncated towards zero; on the
\* multiples of 5 the floating-point product rounds to the exact integer
\* (variant: rounded up)
GasLimitCeil(G) == (6 * G + 4) \div 5
GasLimitFromEstimate(G) == (6 * G) \div 5

\* lines 44-53: the gas limit of the draft on estimate_gas's answer e; the
\* except clause of build_tx takes GAS_LIMIT as it is
\* (variant: the 20% buffer is put on the fallback too)
GasOfBuffered(e) == GasLimitFromEstimate(IF e = EstFail THEN GAS_LIMIT ELSE e)
GasOf(e) == IF e = EstFail THEN GAS_LIMIT ELSE GasLimitFromEstimate(e)

\* w3.to_wei(amount_eth, "ether") with amount_eth = BRIDGE_AMOUNT_ETH
\* (variant: whatever the chain being drained holds above one unit for gas)
BridgeValueFromBalance ==
    IF dir \in Chains /\ bal[dir] > BRIDGE_AMOUNT_ETH + 1
    THEN bal[dir] - 1 ELSE BRIDGE_AMOUNT_ETH
BridgeValue == BRIDGE_AMOUNT_ETH

\* w3.eth.get_transaction_count(wallet_address): default block 'latest',
\* the transactions mined so far, pending ones not counted
NonceRead(c) == mined[c]

\* the node takes a raw transaction when its nonce is the next one and the
\* balance covers value and fee; a transaction of that nonce still in the
\* mempool is replaced when the gas price read by build_tx has risen enough,
\* which is the node's word (Send is then enabled, and so is SendRaise)
NodeAccepts(c, d, fee) ==
    /\ d.nonce = mined[c]
    /\ bal[c] >= d.value + fee

\* the wallet's transactions that sit in a mempool with no receipt observed
Outstanding == Cardinality({c \in Chains : pend[c] # NoTx})

-----------------------------------------------------------------------------
Init ==
    /\ pc = "web3_arb"
    /\ dir = "none"
    /\ connected \in [Chains -> BOOLEAN]
    /\ bal \in InitBalances
    /\ bal0 = bal
    /\ mined = [c \in Chains |-> 0]
    /\ pend = [c \in Chains |-> NoTx]
    /\ inflight = [c \in Chains |-> 0]
    /\ bal_arb = None
    /\ bal_base = None
    /\ lastRead = NoRead
    /\ draft = NoDraft
    /\ status = "none"
    /\ nSent = 0
    /\ last = NoSend
    /\ lastNonce = [c \in Chains |-> None]
    /\ failed = [c \in Chains |-> None]
    /\ slept = <<>>
    /\ ended = "no"
    /\ cyc = NoneYet
    /\ mark = 0
    /\ clean = TRUE
    /\ naps = 0

\* build_tx is about to run in the first cycle of the scenario
GasInit ==
    /\ pc = "build"
    /\ dir = "arb"
    /\ connected = [c \in Chains |-> TRUE]
    /\ bal = Scenario
    /\ bal0 = bal
    /\ mined = [c \in Chains |-> 0]
    /\ pend = [c \in Chains |-> NoTx]
    /\ inflight = [c \in Chains |-> 0]
    /\ bal_arb = bal["arb"]
    /\ bal_base = bal["base"]
    /\ lastRead = [chain |-> "arb", value |-> bal["arb"]]
    /\ draft = NoDraft
    /\ status = "none"
    /\ nSent = 0
    /\ last = NoSend
    /\ lastNonce = [c \in Chains |-> None]
    /\ failed = [c \in Chains |-> None]
    /\ slept = <<>>
    /\ ended = "no"
    /\ cyc = NoneYet
    /\ mark = 0
    /\ clean = TRUE
    /\ naps = 0

-----------------------------------------------------------------------------
(* Startup, lines 102-110 *)

\* get_web3: raises ConnectionError when the endpoint is not connected; the
\* exception is raised outside the loop's try and ends the process
GetWeb3Arb ==
    /\ pc = "web3_arb"
    /\ pc' = IF connected["arb"] THEN "web3_base" ELSE "aborted"
    /\ UNCHANGED <<dir, connected, chainVars, bal_arb, bal_base, lastRead, draft,
                   status, sentVars, failed, slept, ended, mark, clean, naps, bal0>>

\* (variant: get_web3 without the is_connected test)
GetWeb3BaseUnchecked ==
    /\ pc = "web3_base"
    /\ pc' = "verify"
    /\ UNCHANGED <<dir, connected, chainVars, bal_arb, bal_base, lastRead, draft,
                   status, sentVars, failed, slept, ended, mark, clean, naps, bal0>>

GetWeb3Base ==
    /\ pc = "web3_base"
    /\ pc' = IF connected["base"] THEN "verify" ELSE "aborted"
    /\ UNCHANGED <<dir, connected, chainVars, bal_arb, bal_base, lastRead, draft,
                   status, sentVars, failed, slept, ended, mark, clean, naps, bal0>>

-----------------------------------------------------------------------------
(* The except clause, lines 148-150 *)

\* where an exception raised inside the try takes the loop: the except clause
\* catches every Exception; the locals of the bridge_* call are gone
\* (variants: no except clause; the failed send_tx is retried with its draft)
RaiseAbort ==
    /\ pc' = "aborted"
    /\ draft' = NoDraft
    /\ dir' = "none"
RaiseRetry ==
    IF pc \in {"send", "wait"}
    THEN /\ pc' = "send"
         /\ draft' = [draft EXCEPT !.tried = TRUE]
         /\ dir' = dir
    ELSE /\ pc' = "backoff"
         /\ draft' = NoDraft
         /\ dir' = "none"
Caught ==
    /\ pc' = "backoff"
    /\ draft' = NoDraft
    /\ dir' = "none"

\* an exception leaves the try block: the cycle ends
Raise ==
    /\ Caught
    /\ ended' = "error"
    /\ mark' = nSent
    /\ clean' = FALSE
    /\ status' = "none"
    /\ lastRead' = NoRead
    /\ naps' = None

\* print the error, time.sleep(30), next iteration of while True
Backoff ==
    /\ pc = "backoff"
    /\ slept' = Append(slept, ERROR_DELAY)
    /\ pc' = "idle_arb"
    /\ UNCHANGED <<dir, connected, chainVars, bal_arb, bal_base, lastRead, draft,
                   status, sentVars, failed, ended, mark, clean, naps, bal0>>

-----------------------------------------------------------------------------
(* Startup, continued *)

\* verify_contract_code for both contracts (get_code; an RPC error here is
\* outside the try and ends the process), then the wallet is derived
VerifyContracts ==
    /\ pc = "verify"
    /\ pc' \in {"idle_arb", "aborted"}
    /\ UNCHANGED <<dir, connected, chainVars, bal_arb, bal_base, lastRead, draft,
                   status, sentVars, failed, slept, ended, mark, clean, naps, bal0>>

-----------------------------------------------------------------------------
(* The chains *)

\* the pending transaction of chain c is mined with status s: the fee is
\* paid, and on success the value leaves for the other chain
Mine(c, s) ==
    /\ pend[c] # NoTx
    /\ bal' = [bal EXCEPT ![c] = @ - pend[c].fee - (IF s = 1 THEN pend[c].value ELSE 0)]
    /\ inflight' = IF s = 1 THEN [inflight EXCEPT ![Other(c)] = @ + pend[c].value]
                            ELSE inflight
    /\ mined' = [mined EXCEPT ![c] = @ + 1]
    /\ pend' = [pend EXCEPT ![c] = NoTx]

\* a transaction whose receipt wait raised is mined while nobody waits for it
MineLate(c) ==
    /\ ~(pc = "wait" /\ dir = c)
    /\ \E s \in {0, 1} : Mine(c, s)
    /\ UNCHANGED <<pc, dir, connected, bal_arb, bal_base, lastRead, draft, status,
                   sentVars, failed, slept, ended, mark, clean, naps, bal0>>

\* bridged funds reach the destination chain
Arrive(c) ==
    /\ inflight[c] >= BridgeValue
    /\ BridgeValue > 0
    /\ bal' = [bal EXCEPT ![c] = @ + BridgeValue]
    /\ inflight' = [inflight EXCEPT ![c] = @ - BridgeValue]
    /\ UNCHANGED <<pc, dir, connected, mined, pend, bal_arb, bal_base, lastRead,
                   draft, status, sentVars, failed, slept, ended, mark, clean,
                   naps, bal0>>

-----------------------------------------------------------------------------
(* main_loop, one cycle: lines 112-146 *)

\* line 114: bal_arb = check_balance(w3_arb, address)
IdleReadArb ==
    /\ pc = "idle_arb"
    /\ bal_arb' = check_balance("arb")
    /\ pc' = "idle_base"
    /\ slept' = <<>>
    /\ ended' = "no"
    /\ cyc' = NoneYet
    /\ mark' = 0
    /\ UNCHANGED <<dir, connected, chainVars, bal_base, lastRead, draft, status,
                   nSent, last, lastNonce, failed, clean, naps, bal0>>

\* lines 115-122: bal_base is read; both below the threshold: cold wait
IdleReadBase ==
    /\ pc = "idle_base"
    /\ bal_base' = check_balance("base")
    /\ slept' = <<>>
    /\ IF BothBelow(bal_arb, bal_base')
       THEN /\ pc' = "cold"
            /\ ended' = "cold"
            /\ mark' = nSent
            /\ dir' = "none"
       ELSE /\ pc' = "check"
            /\ dir' = FirstDrain
            /\ UNCHANGED <<ended, mark>>
    /\ UNCHANGED <<connected, chainVars, bal_arb, lastRead, draft, status, sentVars,
                   failed, clean, naps, bal0>>

\* line 121: time.sleep(30); continue
ColdSleep ==
    /\ pc = "cold"
    /\ slept' = Append(slept, COLD_DELAY)
    /\ pc' = "idle_arb"
    /\ UNCHANGED <<dir, connected, chainVars, bal_arb, bal_base, lastRead, draft,
                   status, sentVars, failed, ended, mark, clean, naps, bal0>>

\* lines 125 and 135: the while condition reads the balance of the chain
\* being drained; below the threshold the first drain falls through to the
\* second, and the second to the 60 second wait
LoopCheck(c) ==
    /\ pc = "check"
    /\ dir = c
    /\ lastRead' = [chain |-> c, value |-> LoopReading(c)]
    /\ slept' = <<>>
    /\ status' = "none"
    /\ IF Drainable(c, LoopReading(c))
       THEN /\ pc' = "build"
            /\ UNCHANGED <<dir, ended, mark>>
       ELSE IF c = FirstDrain
       THEN /\ pc' = "check"
            /\ dir' = Other(c)
            /\ UNCHANGED <<ended, mark>>
       ELSE /\ pc' = "post"
            /\ dir' = "none"
            /\ ended' = "drained"
            /\ mark' = nSent
    /\ UNCHANGED <<connected, chainVars, bal_arb, bal_base, draft, sentVars, failed, clean, naps, bal0>>

\* a balance read raises (lines 114, 115, 125, 135)
ReadRaise ==
    /\ pc \in {"idle_arb", "idle_base", "check"}
    /\ Raise
    /\ slept' = <<>>
    /\ UNCHANGED <<connected, chainVars, bal_arb, bal_base, sentVars, failed,
                   bal0>>

\* build_tx, lines 30-54, called with BRIDGE_AMOUNT_ETH (lines 86, 91): the
\* nonce and the gas price are read, the gas is estimated; a failed
\* estimation is caught and GAS_LIMIT is used
BuildWith(c, answers) ==
    /\ pc = "build"
    /\ dir = c
    /\ \E e \in answers :
         draft' = [nonce |-> NonceRead(c),
                   gas |-> GasOf(e),
                   est |-> e, value |-> BridgeValue, tried |-> FALSE]
    /\ cyc' = [cyc EXCEPT !["built"] = TRUE]
    /\ pc' = "send"
    /\ UNCHANGED <<dir, connected, chainVars, bal_arb, bal_base, lastRead, status,
                   nSent, last, lastNonce, failed, slept, ended, mark, clean, naps, bal0>>

Build(c) == BuildWith(c, LoopEst)

\* build_tx on every answer estimate_gas may give
BuildAny == BuildWith("arb", EstGas \cup {EstFail})

\* get_transaction_count, gas_price or chain_id raises in build_tx
BuildRaise ==
    /\ pc = "build"
    /\ Raise
    /\ UNCHANGED <<connected, chainVars, bal_arb, bal_base, sentVars, failed, slept, bal0>>

\* send_tx, lines 59-61: the draft is signed and send_raw_transaction hands
\* it to the node, which takes it
Send(c) ==
    /\ pc = "send"
    /\ dir = c
    /\ nSent < MaxTx
    /\ \E fee \in GasCosts :
         /\ NodeAccepts(c, draft, fee)
         /\ pend' = [pend EXCEPT ![c] = [nonce |-> draft.nonce, fee |-> fee,
                                          value |-> draft.value]]
    /\ nSent' = nSent + 1
    /\ cyc' = [cyc EXCEPT ![c] = TRUE]
    /\ last' = [chain |-> c, nonce |-> draft.nonce, prev |-> lastNonce[c],
                retry |-> draft.tried, afterFail |-> failed[c],
                outstanding |-> Outstanding, auth |-> lastRead, naps |-> naps]
    /\ naps' = 0
    /\ lastNonce' = [lastNonce EXCEPT ![c] = draft.nonce]
    /\ failed' = [failed EXCEPT ![c] = None]
    /\ lastRead' = NoRead
    /\ draft' = NoDraft
    /\ pc' = "wait"
    /\ UNCHANGED <<dir, connected, bal, mined, inflight, bal_arb, bal_base, status,
                   slept, ended, mark, clean, bal0>>

\* sign_transaction or send_raw_transaction raises (an RPC error, or the node
\* refuses the transaction): nothing was broadcast
SendRaise(c) ==
    /\ pc = "send"
    /\ dir = c
    /\ failed' = [failed EXCEPT ![c] = draft.nonce]
    /\ Raise
    /\ UNCHANGED <<connected, chainVars, bal_arb, bal_base, sentVars, slept,
                   bal0>>

\* where send_tx's caller goes on after the receipt: status 1 is SUCCESS,
\* anything else FAIL, the receipt is returned either way
\* (variant: a FAIL receipt raises)
ReceiptNextRaise(s) == IF s = 1 THEN "sleep" ELSE "backoff"
ReceiptNext(s) == "sleep"

\* send_tx, lines 62-65: wait_for_transaction_receipt returns the receipt of
\* the mined transaction
WaitReceipt(c) ==
    /\ pc = "wait"
    /\ dir = c
    /\ \E s \in {0, 1} :
         /\ Mine(c, s)
         /\ status' = IF s = 1 THEN "SUCCESS" ELSE "FAIL"
         /\ clean' = (clean /\ s = 1)
         /\ pc' = ReceiptNext(s)
    /\ UNCHANGED <<dir, connected, bal_arb, bal_base, lastRead, draft, sentVars,
                   failed, slept, ended, mark, naps, bal0>>

\* wait_for_transaction_receipt raises (its timeout, 120 s by default, or an
\* RPC error): the transaction stays in the mempool
WaitRaise(c) ==
    /\ pc = "wait"
    /\ dir = c
    /\ failed' = [failed EXCEPT ![c] = pend[c].nonce]
    /\ Raise
    /\ UNCHANGED <<connected, chainVars, bal_arb, bal_base, sentVars, slept,
                   bal0>>

\* lines 130-132 and 140-142: delay = random.randint(10, 30); time.sleep(delay)
LoopSleep(c) ==
    /\ pc = "sleep"
    /\ dir = c
    /\ \E d \in Delays : slept' = Append(slept, d)
    /\ naps' = IF naps = None THEN None ELSE naps + 1
    /\ lastRead' = NoRead
    /\ pc' = "check"
    /\ UNCHANGED <<dir, connected, chainVars, bal_arb, bal_base, draft, status, sentVars,
                   failed, ended, mark, clean, bal0>>

\* lines 145-146: time.sleep(60), next iteration of while True
PostSleep ==
    /\ pc = "post"
    /\ slept' = Append(slept, POST_DRAIN_DELAY)
    /\ pc' = "idle_arb"
    /\ UNCHANGED <<dir, connected, chainVars, bal_arb, bal_base, lastRead, draft,
                   status, sentVars, failed, ended, mark, clean, naps, bal0>>

-----------------------------------------------------------------------------
Next ==
    \/ GetWeb3Arb
    \/ GetWeb3Base
    \/ VerifyContracts
    \/ IdleReadArb
    \/ IdleReadBase
    \/ ColdSleep
    \/ \E c \in Chains : LoopCheck(c)
    \/ ReadRaise
    \/ \E c \in Chains : Build(c)
    \/ BuildRaise
    \/ \E c \in Chains : Send(c)
    \/ \E c \in Chains : SendRaise(c)
    \/ \E c \in Chains : WaitReceipt(c)
    \/ \E c \in Chains : WaitRaise(c)
    \/ \E c \in Chains : LoopSleep(c)
    \/ PostSleep
    \/ Backoff
    \/ \E c \in Chains : MineLate(c)
    \/ \E c \in Chains : Arrive(c)

Spec == Init /\ [][Next]_vars

\* build_tx alone, on the whole range of gas estimates
SpecGas == GasInit /\ [][BuildAny]_vars

-----------------------------------------------------------------------------
(* The loop when no call raises *)

\* the first cycle is about to start: startup went through
LiveInit ==
    /\ pc = "idle_arb"
    /\ dir = "none"
    /\ connected = [c \in Chains |-> TRUE]
    /\ bal \in LiveBalances
    /\ bal0 = bal
    /\ mined = [c \in Chains |-> 0]
    /\ pend = [c \in Chains |-> NoTx]
    /\ inflight = [c \in Chains |-> 0]
    /\ bal_arb = None
    /\ bal_base = None
    /\ lastRead = NoRead
    /\ draft = NoDraft
    /\ status = "none"
    /\ nSent = 0
    /\ last = NoSend
    /\ lastNonce = [c \in Chains |-> None]
    /\ failed = [c \in Chains |-> None]
    /\ slept = <<>>
    /\ ended = "no"
    /\ cyc = NoneYet
    /\ mark = 0
    /\ clean = TRUE
    /\ naps = 0

\* the statements of main_loop, each RPC call returning
LoopStep ==
    \/ IdleReadArb
    \/ IdleReadBase
    \/ ColdSleep
    \/ \E c \in Chains : LoopCheck(c)
    \/ \E c \in Chains : Build(c)
    \/ \E c \in Chains : Send(c)
    \/ \E c \in Chains : WaitReceipt(c)
    \/ \E c \in Chains : LoopSleep(c)
    \/ PostSleep

\* the bridge delivers when it delivers
LiveNext == LoopStep \/ \E c \in Chains : Arrive(c)

\* main_loop is one thread: a statement whose call returns is executed
\* (time.sleep ends, a broadcast transaction is mined and its receipt comes)
SpecLive == LiveInit /\ [][LiveNext]_vars /\ WF_vars(LoopStep)

-----------------------------------------------------------------------------
(* Properties *)

\* the loop is inside a cycle: both balances were read and the cycle has not
\* yet gone to sleep before the next one
InCycle == pc \in {"check", "build", "send", "wait", "sleep", "post"}

\* the cycle started with Arbitrum at or above the threshold and Base below it
ArbOnlyStart == InCycle /\ bal_arb >= 4 /\ bal_base < 4

\* C1 as stated: in a cycle that starts with the Arbitrum balance at or above
\* the threshold and the Base balance below it, no Base->Arb transaction is
\* issued before the cycle's 60 second wait, however the balances evolve.
C1_NoBaseTx == ArbOnlyStart => ~cyc["base"]

\* C1 amended: in such a cycle only Arb->Base transactions are issued while
\* the Arbitrum drain runs, and a Base->Arb transaction is issued before the
\* 60 second wait only on a Base balance read, made in the Base drain, that
\* returned at least the threshold.
C1_BaseTxOnlyOnFreshRead ==
    ArbOnlyStart =>
        /\ (dir = "arb" => ~cyc["base"])
        /\ (cyc["base"] => /\ last.chain = "base"
                           /\ last.auth.chain = "base"
                           /\ last.auth.value >= 4)

C1_Witness == ArbOnlyStart /\ cyc["arb"] /\ cyc["base"] /\ pc = "post"

\* C2: on one chain, a broadcast carries a nonce greater than the nonce of
\* the broadcast before it on that chain.
C2_NoncesIncrease == last.prev # None => last.nonce > last.prev

\* the scenario so far: 0.05 on Arbitrum and nothing on Base at startup, no
\* exception, every receipt SUCCESS, no bridged funds arrived on Base yet
ScenarioRun ==
    /\ bal0 = Scenario
    /\ clean
    /\ nSent > 0
    /\ inflight["base"] = nSent * BRIDGE_AMOUNT_ETH

\* gas paid so far: what left the two balances and is not on its way
GasSpent ==
    (bal0["arb"] + bal0["base"])
        - (bal["arb"] + bal["base"] + inflight["arb"] + inflight["base"])

\* C3 as stated: the scenario reaches the wait after the drains with exactly
\* five Arb->Base transactions and both balances below the threshold.
C3_FiveTransactions ==
    (pc = "post" /\ ScenarioRun) =>
        /\ nSent = 5
        /\ bal["arb"] < 4
        /\ bal["base"] < 4

\* C3 amended: the scenario reaches the 60 second wait after at most four
\* Arb->Base transactions, exactly four when their gas costs together do not
\* exceed the bridge amount, with both balances below the threshold and no
\* Base->Arb transaction.
C3_FourTransactions ==
    (pc = "post" /\ ScenarioRun) =>
        /\ nSent <= 4
        /\ (GasSpent <= 4 => nSent = 4)
        /\ bal["arb"] < 4
        /\ bal["base"] < 4
        /\ cyc["arb"]
        /\ ~cyc["base"]

C3_Witness == pc = "post" /\ ScenarioRun /\ nSent = 4 /\ GasSpent = 4

\* C4: when both balances read at the start of a cycle are below the
\* threshold, nothing is built or broadcast in the cycle and the loop sleeps
\* 30 seconds, once, before the next balance read.
C4_ColdWait ==
    ended = "cold" =>
        /\ bal_arb < 4
        /\ bal_base < 4
        /\ ~cyc["built"] /\ ~cyc["arb"] /\ ~cyc["base"]
        /\ nSent = mark
        /\ draft = NoDraft
        /\ \/ pc = "cold" /\ slept = <<>>
           \/ pc = "idle_arb" /\ slept = <<30>>

C4_Witness == ended = "cold" /\ pc = "idle_arb" /\ nSent > 0

\* C5: a receipt of status 0 is classified FAIL and returned; no exception
\* ends the cycle, nothing is broadcast again, and the loop sleeps and goes
\* to the next balance check of the drain.
C5_FailIsNotAnError ==
    status = "FAIL" =>
        /\ ended = "no"
        /\ draft = NoDraft
        /\ dir \in Chains
        /\ pend[dir] = NoTx
        /\ last.chain = dir
        /\ last.nonce = mined[dir] - 1
        /\ \/ pc = "sleep" /\ slept = <<>>
           \/ pc = "check" /\ Len(slept) = 1

C5_Witness == status = "FAIL" /\ pc = "check"

\* C6: an exception raised by a balance read, by build_tx or by send_tx ends
\* the cycle in the error backoff: nothing is broadcast afterwards, the loop
\* sleeps 30 seconds and goes back to the first balance read; the process
\* ends only at startup.
C6_ErrorBackoff ==
    /\ ended = "error" =>
          /\ nSent = mark
          /\ draft = NoDraft
          /\ \/ pc = "backoff"
             \/ pc = "idle_arb" /\ slept = <<30>>
    /\ pc = "aborted" => (ended = "no" /\ bal_arb = None /\ nSent = 0)

C6_Witness == ended = "error" /\ pc = "idle_arb" /\ cyc["arb"] /\ cyc["base"]

\* C7 as stated: the transaction broadcast on a chain after an attempt that
\* raised in send_tx has a nonce different from that attempt's.
C7_NonceDiffers == last.afterFail # None => last.nonce # last.afterFail

\* C7 amended: the transaction broadcast on a chain after an attempt that
\* raised in send_tx is a draft built anew, never the draft of that attempt;
\* its nonce is the count of mined transactions read at the rebuild, which
\* is not below the nonce of the failed attempt (and equal to it while no
\* transaction of that nonce has been mined).
C7_FreshDraft ==
    /\ last.afterFail # None => (~last.retry /\ last.nonce >= last.afterFail)
    /\ pc = "send" => (~draft.tried /\ draft.nonce <= mined[dir])
    /\ \A c \in Chains : failed[c] # None => failed[c] <= mined[c]

C7_Witness == last.afterFail # None /\ last.nonce > last.afterFail

\* C8: no transaction is broadcast while a transaction broadcast earlier, on
\* either chain, is in the mempool with no receipt observed.
C8_Serialized == last.outstanding = 0

\* C9: when the Base drain has ended the loop sleeps 60 seconds, once, before
\* the next balance read and broadcasts nothing in between.
C9_PostDrainWait ==
    ended = "drained" =>
        /\ nSent = mark
        /\ draft = NoDraft
        /\ \/ pc = "post" /\ slept = <<>>
           \/ pc = "idle_arb" /\ slept = <<60>>

C9_Witness == ended = "drained" /\ pc = "idle_arb" /\ cyc["arb"] /\ cyc["base"]

\* C10 as stated: the gas limit is the least integer not below 6*G/5.
C10_Ceil ==
    (draft # NoDraft /\ draft.est # EstFail) =>
        /\ 5 * draft.gas >= 6 * draft.est
        /\ 5 * (draft.gas - 1) < 6 * draft.est

\* C10 amended: the gas limit is the greatest integer not above 6*G/5
\* (the product is truncated, not rounded up).
C10_Floor ==
    (draft # NoDraft /\ draft.est # EstFail) =>
        /\ 5 * draft.gas <= 6 * draft.est
        /\ 5 * (draft.gas + 1) > 6 * draft.est

C10_Witness == draft # NoDraft /\ draft.est = 7 /\ draft.gas = 8

\* C11: when estimate_gas raises, build_tx still returns a draft, whose gas
\* limit is GAS_LIMIT as configured; the pipeline goes on to send_tx and the
\* cycle is not ended by an error.
C11_FallbackGas ==
    (draft # NoDraft /\ draft.est = EstFail) =>
        /\ draft.gas = 9
        /\ draft.nonce # None
        /\ pc = "send"
        /\ ended = "no"

C11_Witness == pc = "send" /\ draft.est = EstFail /\ draft.gas = 9 /\ dir = "base"

\* C12: every draft built and every transaction broadcast carries the value
\* BRIDGE_AMOUNT_ETH, whatever the balances are.
C12_ValueIsBridgeAmount ==
    /\ draft # NoDraft => draft.value = 4
    /\ \A c \in Chains : pend[c] # NoTx => pend[c].value = 4

C12_Witness ==
    /\ pend["base"] # NoTx
    /\ pend["base"].value = 4
    /\ bal["base"] > 2 * 4

\* C13: when an endpoint is not connected at startup, main_loop never gets
\* into its loop: no balance is read, nothing is built or broadcast, and the
\* failure is not turned into the 30 second backoff.
C13_AbortsAtStartup ==
    (\E c \in Chains : ~connected[c]) =>
        /\ pc \in {"web3_arb", "web3_base", "aborted"}
        /\ bal_arb = None
        /\ bal_base = None
        /\ lastRead = NoRead
        /\ draft = NoDraft
        /\ ~cyc["built"]
        /\ nSent = 0
        /\ ended = "no"
        /\ slept = <<>>

C13_Witness == pc = "aborted" /\ connected["arb"] /\ ~connected["base"]

\* C14: in one cycle the Arb->Base transactions come before the Base->Arb
\* ones: a transaction is broadcast on the chain being drained; the Base
\* drain starts only from the Arbitrum drain, on an Arbitrum balance read
\* below the threshold; once it has started, the Arbitrum drain starts again
\* only in a new cycle, from the idle reads.
C14_PhaseOrder ==
    [][/\ nSent' # nSent =>
            /\ last'.chain = dir
            /\ dir' = dir
            /\ (dir = "arb" => ~cyc["base"])
       /\ (dir # "base" /\ dir' = "base") =>
            /\ dir = "arb"
            /\ pc = "check"
            /\ lastRead'.chain = "arb"
            /\ lastRead'.value < 4
       /\ dir = "base" => dir' # "arb"
       /\ (dir # "arb" /\ dir' = "arb") =>
            /\ pc = "idle_base"
            /\ ~cyc'["arb"]
            /\ ~cyc'["base"]]_vars

C14_Witness == dir = "base" /\ pc = "wait" /\ cyc["arb"] /\ cyc["base"]

\* C15: when the loop enters the 60 second wait, both balances are below the
\* threshold, as the message printed there says.
C15_BothBelowAtWait ==
    [][(pc # "post" /\ pc' = "post") =>
            /\ bal'["arb"] < 4
            /\ bal'["base"] < 4]_vars

\* the balance read passed the threshold and the node cannot take the
\* transaction: send_raw_transaction cannot return
Unaffordable ==
    /\ pc = "send"
    /\ bal[dir] >= 4
    /\ \A fee \in GasCosts : ~NodeAccepts(dir, draft, fee)

\* the drains have just ended on a balance read below the threshold
ArbDrainOver ==
    pc = "check" /\ dir = "base" /\ lastRead.chain = "arb" /\ lastRead.value < 4
BaseDrainOver ==
    pc = "post" /\ dir = "none" /\ lastRead.chain = "base" /\ lastRead.value < 4

\* C16: when every call returns, each drain that has started reaches a
\* balance read below the threshold, and the loop is at its idle reads again
\* and again.
C16_DrainsEnd ==
    /\ [](dir = "arb" => <>(ArbDrainOver \/ Unaffordable))
    /\ [](dir = "base" => <>(BaseDrainOver \/ Unaffordable))
    /\ []<>(pc = "idle_arb" \/ Unaffordable)

C16_Witness ==
    /\ BaseDrainOver
    /\ ended = "drained"
    /\ cyc["arb"]
    /\ cyc["base"]
    /\ nSent >= 3

\* C17: build_tx and send_tx run on a chain right after a balance read of
\* that chain returned at least the threshold, with no sleep in between, and
\* every broadcast was authorized by such a read; the cycle's first reads
\* alone authorize nothing.
C17_FreshReadAuthorizes ==
    /\ pc \in {"build", "send"} =>
            /\ lastRead.chain = dir
            /\ lastRead.value >= 4
            /\ slept = <<>>
    /\ nSent > 0 =>
            /\ last.auth.chain = last.chain
            /\ last.auth.value >= 4

C17_Witness ==
    /\ pc = "wait"
    /\ last.chain = "arb"
    /\ bal_arb # None
    /\ bal_arb < 4
    /\ bal_base >= 4

\* C18: after a receipt came back the loop sleeps once, 10 to 30 seconds,
\* before the next balance read; two broadcasts in a row with no exception
\* between them have exactly one such sleep between them.
C18_OneSleepBetween ==
    /\ status # "none" =>
            \/ pc = "sleep" /\ slept = <<>>
            \/ pc = "check" /\ Len(slept) = 1 /\ slept[1] \in 10..30
    /\ (nSent > 1 /\ last.naps # None) => last.naps = 1

C18_Witness ==
    /\ pc = "wait"
    /\ last.chain = "base"
    /\ cyc["arb"]
    /\ last.prev = None
    /\ last.naps = 1
    /\ clean

====
